---- MODULE Spec2Model ----
(***************************************************************************)
(* A model of librustc/traits/on_unimplemented.rs: the parser of the       *)
(* #[rustc_on_unimplemented] attribute (parse, of_item), the matches       *)
(* clause reader (names_from_matches_clause), the directive resolver       *)
(* (evaluate) and the message templates (try_parse, verify, format).       *)
(***************************************************************************)
EXTENDS Integers, Sequences, FiniteSets, TLC

VARIABLES attr, result, diags, call, note

vars == <<attr, result, diags, call, note>>

(***************************************************************************)
(* Option<T>: None is the empty sequence, Some(x) the one-element one.     *)
(***************************************************************************)
None == <<>>

Some(x) == <<x>>

IsSome(o) == o # <<>>

Unwrap(o) == o[1]

(***************************************************************************)
(* syntax::ast: literals and (nested) meta items.  One record shape for    *)
(* all four kinds of NestedMetaItem: a bare literal, a word `name`, a      *)
(* name/value pair `name = lit` and a list `name(items...)`.               *)
(***************************************************************************)
StrLit(s) == [str |-> TRUE, s |-> s]

IntLit(s) == [str |-> FALSE, s |-> s]

NoLit == [str |-> FALSE, s |-> ""]

Literal(l) == [kind |-> "Literal", name |-> "", lit |-> l, items |-> <<>>]

Word(n) == [kind |-> "Word", name |-> n, lit |-> NoLit, items |-> <<>>]

NameValue(n, l) == [kind |-> "NameValue", name |-> n, lit |-> l, items |-> <<>>]

List(n, its) == [kind |-> "List", name |-> n, lit |-> NoLit, items |-> its]

\* NestedMetaItem::literal
literal(ni) == IF ni.kind = "Literal" THEN Some(ni.lit) ELSE None

\* NestedMetaItem::meta_item
meta_item(ni) == IF ni.kind = "Literal" THEN None ELSE Some(ni)

\* NestedMetaItem::name_value_literal: the key and the literal of `key = lit`
name_value_literal(ni) ==
    IF ni.kind = "NameValue" THEN Some(<<ni.name, ni.lit>>) ELSE None

\* MetaItem::value_str: the string of `name = "string"`
value_str(mi) ==
    IF mi.kind = "NameValue" /\ mi.lit.str THEN Some(mi.lit.s) ELSE None

\* MetaItem::meta_item_list
meta_item_list(mi) == IF mi.kind = "List" THEN Some(mi.items) ELSE None

\* NestedMetaItem::check_name
check_name(ni, n) == ni.kind # "Literal" /\ ni.name = n

(***************************************************************************)
(* names_from_matches_clause: Ok((bound_name, self_name)) or Err(text).    *)
(***************************************************************************)
NamesOk(b, s) == [ok |-> TRUE, bound |-> b, self |-> s, err |-> ""]

NamesErr(e) == [ok |-> FALSE, bound |-> "", self |-> "", err |-> e]

RECURSIVE NamesLoop(_, _, _, _)
NamesLoop(nested_items, i, bound_name, self_name) ==
    IF i > Len(nested_items)
    THEN IF ~IsSome(bound_name)
         THEN NamesErr("matches clause should have a bound literal")
         ELSE IF ~IsSome(self_name)
         THEN NamesErr("matches clause should have a self KV-pair")
         ELSE NamesOk(Unwrap(bound_name), Unwrap(self_name))
    ELSE LET nested_item == nested_items[i]
             lit == literal(nested_item)
             kv == name_value_literal(nested_item)
         IN  IF IsSome(lit)
             THEN IF Unwrap(lit).str
                  THEN IF IsSome(bound_name)
                       THEN NamesErr("Multiple string literals provided to rustc_on_unimplemented matches clause")
                       ELSE NamesLoop(nested_items, i + 1, Some(Unwrap(lit).s), self_name)
                  ELSE NamesLoop(nested_items, i + 1, bound_name, self_name)
             ELSE IF IsSome(kv) /\ Unwrap(kv)[1] = "Self" /\ Unwrap(kv)[2].str
             THEN IF IsSome(self_name)
                  THEN NamesErr("Multiple Self types provided to rustc_on_unimplemented matches clause")
                  ELSE NamesLoop(nested_items, i + 1, bound_name, Some(Unwrap(kv)[2].s))
             ELSE NamesLoop(nested_items, i + 1, bound_name, self_name)

names_from_matches_clause(nested_items) == NamesLoop(nested_items, 1, None, None)

(***************************************************************************)
(* The type system as this file sees it (ty::TyCtxt).  One annotated       *)
(* trait, Foo<T>; generics_of a trait lists Self first.  A trait reference *)
(* is the trait with one concrete type per generic parameter.              *)
(***************************************************************************)
TraitDefId == "trait_Foo"

\* tcx.item_name(trait_def_id)
item_name(def_id) == IF def_id = TraitDefId THEN "Foo" ELSE def_id

\* tcx.item_path_str(trait_def_id)
item_path_str(def_id) == IF def_id = TraitDefId THEN "krate::Foo" ELSE def_id

\* tcx.generics_of(trait_def_id).types, by name
generics_types(def_id) == IF def_id = TraitDefId THEN <<"Self", "T">> ELSE <<>>

\* The concrete types a trait reference may bind to a parameter
ConcreteTypes == {"A", "B"}

TraitRefs ==
    {[def_id |-> TraitDefId, substs |-> <<s, t>>] : s \in ConcreteTypes, t \in ConcreteTypes}

\* trait_ref.substs.type_for_def(param).to_string(), param the i-th of generics.types
type_for_def(trait_ref, i) == trait_ref.substs[i]

\* tcx.matches_resolutions(trait): the names a matches clause may use, resolved
matches_resolutions(def_id) ==
    IF def_id = TraitDefId
    THEN Some(<<<<"Bar", "trait_Bar">>, <<"T", "param_T">>, <<"MyType", "struct_MyType">>>>)
    ELSE None

\* tcx.type_of(def_id): a generic parameter's type is the parameter itself
type_of(def_id) ==
    CASE def_id = "param_T" -> "T"
      [] def_id = "struct_MyType" -> "MyType"
      [] OTHER -> def_id

\* The impls in scope: MyType and A implement Bar; B and the bare parameter T do not
Impls == {<<"MyType", "trait_Bar">>, <<"A", "trait_Bar">>}

\* SelectionContext::evaluate_obligation of `ty: trait` in the empty ParamEnv
evaluate_obligation(ty, trait_id) == <<ty, trait_id>> \in Impls

\* Iterator::find over a resolutions table: the first entry with that name
RECURSIVE FindRes(_, _, _)
FindRes(table, name, i) ==
    IF i > Len(table) THEN None
    ELSE IF table[i][1] = name THEN Some(table[i][2])
    ELSE FindRes(table, name, i + 1)

(***************************************************************************)
(* The two pairs of callbacks handed to the condition evaluator.  An       *)
(* outcome is "true", "false", "panic" (an unwrap/expect that failed) or,  *)
(* for a list handler, "none" (not my clause).                             *)
(***************************************************************************)
OfBool(b) == IF b THEN "true" ELSE "false"

\* parse: &mut |_| true
ParseLeaf(c) == "true"

\* parse: the matches handler, which only checks the clause's shape
ParseListHandler(attribute, nested_list) ==
    IF attribute.name # "matches" THEN "none"
    ELSE IF ~names_from_matches_clause(nested_list).ok THEN "panic"
    ELSE "true"

\* EvaluateLeaf with a leaf that carries no value matched by its name alone
EvaluateLeafByName(options, c) ==
    OfBool(\E o \in options :
              o[1] = c.name /\ (IsSome(value_str(c)) => o[2] = value_str(c)))

\* evaluate: options.contains(&(name, value))
EvaluateLeaf(options, c) == OfBool(<<c.name, value_str(c)>> \in options)

\* evaluate: the matches handler, which asks whether the self type meets the bound
EvaluateListHandler(trait_ref, attribute, nested_list) ==
    IF attribute.name # "matches" THEN "none"
    ELSE LET names == names_from_matches_clause(nested_list)
             res == matches_resolutions(trait_ref.def_id)
         IN  IF ~names.ok \/ ~IsSome(res) THEN "panic"
             ELSE LET trait_bound_id == FindRes(Unwrap(res), names.bound, 1)
                      self_id == FindRes(Unwrap(res), names.self, 1)
                  IN  IF ~IsSome(trait_bound_id) \/ ~IsSome(self_id) THEN "panic"
                      ELSE OfBool(evaluate_obligation(type_of(Unwrap(self_id)),
                                                      Unwrap(trait_bound_id)))

\* The context of one evaluation: parse's callbacks, or evaluate's with its arguments
ParseCtx == [parse |-> TRUE, trait_ref |-> [def_id |-> TraitDefId, substs |-> <<>>], options |-> {}]

EvaluateCtx(trait_ref, options) == [parse |-> FALSE, trait_ref |-> trait_ref, options |-> options]

LeafTester(ctx, c) == IF ctx.parse THEN ParseLeaf(c) ELSE EvaluateLeaf(ctx.options, c)

ListHandler(ctx, attribute, nested_list) ==
    IF ctx.parse THEN ParseListHandler(attribute, nested_list)
    ELSE EvaluateListHandler(ctx.trait_ref, attribute, nested_list)

(***************************************************************************)
(* attr::eval_condition_with_custom_list_handler: the list handler sees    *)
(* every list first; all and any stop at the first child that decides      *)
(* them, not inverts its child, any other name goes to the leaf tester.    *)
(***************************************************************************)
Negate(r) == IF r = "panic" THEN "panic" ELSE IF r = "true" THEN "false" ELSE "true"

RECURSIVE eval_condition(_, _), EvalAny(_, _, _), EvalAll(_, _, _)
eval_condition(cfg, ctx) ==
    IF cfg.kind = "List"
    THEN LET h == ListHandler(ctx, cfg, cfg.items)
         IN  IF h # "none" THEN h
             ELSE IF cfg.name = "any" THEN EvalAny(cfg.items, 1, ctx)
             ELSE IF cfg.name = "all" THEN EvalAll(cfg.items, 1, ctx)
             ELSE IF cfg.name = "not" /\ Len(cfg.items) = 1
             THEN Negate(eval_condition(cfg.items[1], ctx))
             ELSE LeafTester(ctx, cfg)
    ELSE LeafTester(ctx, cfg)

EvalAny(mis, i, ctx) ==
    IF i > Len(mis) THEN "false"
    ELSE LET r == eval_condition(mis[i], ctx)
         IN  IF r = "false" THEN EvalAny(mis, i + 1, ctx) ELSE r

EvalAll(mis, i, ctx) ==
    IF i > Len(mis) THEN "true"
    ELSE LET r == eval_condition(mis[i], ctx)
         IN  IF r = "true" THEN EvalAll(mis, i + 1, ctx) ELSE r

(***************************************************************************)
(* fmt_macros::Parser: a template string cut into literal runs and         *)
(* {placeholders}; a placeholder that is empty or starts with a digit is   *)
(* positional, any other is named.                                         *)
(***************************************************************************)
Digits == {"0", "1", "2", "3", "4", "5", "6", "7", "8", "9"}

StringPiece(s) == [kind |-> "String", position |-> "", s |-> s]

ArgumentPiece(a) ==
    [kind |-> "NextArgument",
     position |-> IF a = "" \/ SubSeq(a, 1, 1) \in Digits THEN "ArgumentIs" ELSE "ArgumentNamed",
     s |-> a]

\* The first position >= i of s that holds character c, or Len(s) + 1
RECURSIVE IndexOf(_, _, _)
IndexOf(s, c, i) ==
    IF i > Len(s) THEN Len(s) + 1
    ELSE IF SubSeq(s, i, i) = c THEN i
    ELSE IndexOf(s, c, i + 1)

RECURSIVE ParserFrom(_, _)
ParserFrom(s, i) ==
    IF i > Len(s) THEN <<>>
    ELSE LET open == IndexOf(s, "{", i)
             close == IndexOf(s, "}", open)
         IN  IF open > i THEN <<StringPiece(SubSeq(s, i, open - 1))>> \o ParserFrom(s, open)
             ELSE <<ArgumentPiece(SubSeq(s, open + 1, close - 1))>> \o ParserFrom(s, close + 1)

Parser(s) == ParserFrom(s, 1)

(***************************************************************************)
(* OnUnimplementedFormatString: verify, try_parse, format.                 *)
(***************************************************************************)
\* A diagnostic that was emitted: its error code and the span it points at
Diag(code, span) == [code |-> code, span |-> span]

InSeq(x, seq) == \E i \in 1..Len(seq) : seq[i] = x

\* VerifyPiece without the check of a named placeholder against the
\* trait's type parameters
VerifyPieceAnyName(token, trait_def_id, span) ==
    IF token.kind = "String" \/ token.position = "ArgumentNamed" THEN <<>>
    ELSE <<Diag("E0231", span)>>

\* verify, one token: the diagnostics it emits
VerifyPiece(token, trait_def_id, span) ==
    IF token.kind = "String" THEN <<>>
    ELSE IF token.position = "ArgumentNamed"
    THEN IF token.s = "Self" THEN <<>>
         ELSE IF token.s = item_name(trait_def_id) THEN <<>>
         ELSE IF InSeq(token.s, generics_types(trait_def_id)) THEN <<>>
         ELSE <<Diag("E0230", span)>>
    ELSE <<Diag("E0231", span)>>

RECURSIVE VerifyLoop(_, _, _, _)
VerifyLoop(tokens, i, trait_def_id, span) ==
    IF i > Len(tokens) THEN <<>>
    ELSE VerifyPiece(tokens[i], trait_def_id, span) \o VerifyLoop(tokens, i + 1, trait_def_id, span)

\* verify: every violation of the template is reported; Err iff there was one
verify(from, trait_def_id, span) ==
    LET ds == VerifyLoop(Parser(from), 1, trait_def_id, span)
    IN  [ok |-> ds = <<>>, diags |-> ds]

\* try_parse: the template itself when verify passes
try_parse(trait_def_id, from, err_sp) ==
    LET v == verify(from, trait_def_id, err_sp)
    IN  [ok |-> v.ok, value |-> from, diags |-> v.diags]

\* generic_map.get(s): the printed type bound to the parameter named s
RECURSIVE GenericMapGet(_, _, _)
GenericMapGet(trait_ref, s, i) ==
    IF i > Len(generics_types(trait_ref.def_id)) THEN None
    ELSE IF generics_types(trait_ref.def_id)[i] = s THEN Some(type_for_def(trait_ref, i))
    ELSE GenericMapGet(trait_ref, s, i + 1)

Rendered(s) == [bug |-> FALSE, s |-> s]

Bug == [bug |-> TRUE, s |-> ""]

\* format, one piece: the text it stands for, or the bug! branch
FormatPiece(p, trait_ref) ==
    IF p.kind = "String" THEN Rendered(p.s)
    ELSE IF p.position = "ArgumentNamed"
    THEN LET val == GenericMapGet(trait_ref, p.s, 1)
         IN  IF IsSome(val) THEN Rendered(Unwrap(val))
             ELSE IF p.s = item_name(trait_ref.def_id)
             THEN Rendered(item_path_str(trait_ref.def_id))
             ELSE Bug
    ELSE Bug

RECURSIVE FormatLoop(_, _, _)
FormatLoop(pieces, i, trait_ref) ==
    IF i > Len(pieces) THEN Rendered("")
    ELSE LET head == FormatPiece(pieces[i], trait_ref)
             rest == FormatLoop(pieces, i + 1, trait_ref)
         IN  IF head.bug \/ rest.bug THEN Bug ELSE Rendered(head.s \o rest.s)

\* format: the pieces rendered against a trait reference and collected
format(template, trait_ref) == FormatLoop(Parser(template), 1, trait_ref)

(***************************************************************************)
(* OnUnimplementedDirective::parse.  A span is the path of the item in     *)
(* the attribute: <<>> the attribute itself, <<i>> its i-th item, <<i, j>> *)
(* the j-th item of the on(...) that is its i-th item.                     *)
(***************************************************************************)
Directive(c, subs, m, l) ==
    [condition |-> c, subcommands |-> subs, message |-> m, label |-> l]

EmptyDirective == Directive(None, <<>>, None, None)

\* parse_error: one E0232 diagnostic at the span
parse_error(span) == Diag("E0232", span)

\* What a parse call hands back: Ok(directive), Err(ErrorReported) or a panic,
\* with the diagnostics it emitted and the items its loop looked at
ParseOk(d, ds, sc) == [status |-> "Ok", dir |-> d, diags |-> ds, scanned |-> sc]

ParseErr(ds, sc) == [status |-> "Err", dir |-> EmptyDirective, diags |-> ds, scanned |-> sc]

ParsePanic(ds, sc) == [status |-> "Panic", dir |-> EmptyDirective, diags |-> ds, scanned |-> sc]

\* The local variables of parse while its loop runs
ParseLocals(c, m, l, subs, e, ds, sc) ==
    [condition |-> c, message |-> m, label |-> l, subcommands |-> subs,
     errored |-> e, diags |-> ds, scanned |-> sc]

\* The end of parse: Err if errored, the directive otherwise
ParseFinish(st) ==
    IF st.errored THEN ParseErr(st.diags, st.scanned)
    ELSE ParseOk(Directive(st.condition, st.subcommands, st.message, st.label),
                 st.diags, st.scanned)

\* AcceptsOn without the is_root test
AcceptsOnBelowRoot(item, is_root, st) ==
    check_name(item, "on") /\ ~IsSome(st.message) /\ ~IsSome(st.label)

\* The guard of the on(...) branch: an on item, at the root, before any
\* message or label of the root
AcceptsOn(item, is_root, st) ==
    check_name(item, "on") /\ is_root /\ ~IsSome(st.message) /\ ~IsSome(st.label)

RECURSIVE parse(_, _, _, _), ParseLoop(_, _, _, _, _, _)
\* The loop over the items after the condition, from item i on
ParseLoop(trait_def_id, items, span, is_root, i, st) ==
    IF i > Len(items) THEN ParseFinish(st)
    ELSE
    LET item == items[i]
        item_span == Append(span, i)
        sc == Append(st.scanned, item_span)
        seen == [st EXCEPT !.scanned = sc]
        nothing_found ==
            ParseLoop(trait_def_id, items, span, is_root, i + 1,
                      [seen EXCEPT !.diags = Append(st.diags, parse_error(item_span))])
    IN  IF check_name(item, "message") /\ ~IsSome(st.message)
        THEN IF IsSome(value_str(item))
             THEN LET t == try_parse(trait_def_id, Unwrap(value_str(item)), span)
                  IN  IF ~t.ok THEN ParseErr(st.diags \o t.diags, sc)
                      ELSE ParseLoop(trait_def_id, items, span, is_root, i + 1,
                                     [seen EXCEPT !.message = Some(t.value)])
             ELSE nothing_found
        ELSE IF check_name(item, "label") /\ ~IsSome(st.label)
        THEN IF IsSome(value_str(item))
             THEN LET t == try_parse(trait_def_id, Unwrap(value_str(item)), span)
                  IN  IF ~t.ok THEN ParseErr(st.diags \o t.diags, sc)
                      ELSE ParseLoop(trait_def_id, items, span, is_root, i + 1,
                                     [seen EXCEPT !.label = Some(t.value)])
             ELSE nothing_found
        ELSE IF AcceptsOn(item, is_root, st)
        THEN IF IsSome(meta_item_list(item))
             THEN LET sub == parse(trait_def_id, Unwrap(meta_item_list(item)), item_span, FALSE)
                      ds == st.diags \o sub.diags
                  IN  IF sub.status = "Panic" THEN ParsePanic(ds, sc \o sub.scanned)
                      ELSE ParseLoop(trait_def_id, items, span, is_root, i + 1,
                               [seen EXCEPT
                                  !.diags = ds,
                                  !.scanned = sc \o sub.scanned,
                                  !.subcommands = IF sub.status = "Ok"
                                                  THEN Append(st.subcommands, sub.dir)
                                                  ELSE st.subcommands,
                                  !.errored = st.errored \/ sub.status # "Ok"])
             ELSE nothing_found
        ELSE nothing_found

parse(trait_def_id, items, span, is_root) ==
    IF is_root
    THEN ParseLoop(trait_def_id, items, span, is_root, 1,
                   ParseLocals(None, None, None, <<>>, FALSE, <<>>, <<>>))
    ELSE IF items = <<>> THEN ParseErr(<<parse_error(span)>>, <<>>)
    ELSE IF ~IsSome(meta_item(items[1])) THEN ParseErr(<<parse_error(span)>>, <<>>)
    ELSE IF eval_condition(items[1], ParseCtx) = "panic" THEN ParsePanic(<<>>, <<>>)
    ELSE ParseLoop(trait_def_id, items, span, is_root, 2,
                   ParseLocals(Some(items[1]), None, None, <<>>, FALSE, <<>>, <<>>))

(***************************************************************************)
(* OnUnimplementedDirective::of_item.  attribute is what the find over the *)
(* item's attributes gave: None, or the rustc_on_unimplemented attribute.  *)
(***************************************************************************)
OfItemResult(status, d, ds, sc) == [status |-> status, dir |-> d, diags |-> ds, scanned |-> sc]

\* BareStringDirective with the string taken as the message
BareStringAsMessage(t) == Directive(None, <<>>, Some(t), None)

\* The directive of a bare string attribute: the string is the label
BareStringDirective(t) == Directive(None, <<>>, None, Some(t))

of_item(trait_def_id, attribute) ==
    IF ~IsSome(attribute) THEN OfItemResult("Ok", None, <<>>, <<>>)
    ELSE LET a == Unwrap(attribute)
         IN  IF IsSome(meta_item_list(a))
             THEN LET r == parse(trait_def_id, Unwrap(meta_item_list(a)), <<>>, TRUE)
                  IN  OfItemResult(r.status, IF r.status = "Ok" THEN Some(r.dir) ELSE None,
                                   r.diags, r.scanned)
             ELSE IF IsSome(value_str(a))
             THEN LET t == try_parse(trait_def_id, Unwrap(value_str(a)), <<>>)
                  IN  IF ~t.ok THEN OfItemResult("Err", None, t.diags, <<>>)
                      ELSE OfItemResult("Ok", Some(BareStringDirective(t.value)), <<>>, <<>>)
             ELSE OfItemResult("Err", None, <<parse_error(<<>>)>>, <<>>)

(***************************************************************************)
(* OnUnimplementedDirective::evaluate.                                     *)
(***************************************************************************)
Note(status, m, l) == [status |-> status, message |-> m, label |-> l]

\* Candidates without the rev(): subcommands as declared, then the root
CandidatesNotReversed(self) == Append(self.subcommands, self)

\* self.subcommands.iter().chain(Some(self)).rev(): the root, then the
\* subcommands from the last declared to the first
Candidates(self) ==
    <<self>> \o [i \in 1..Len(self.subcommands) |->
                    self.subcommands[Len(self.subcommands) + 1 - i]]

\* Whether a candidate applies: "true", "false" or "panic"
CommandApplies(command, trait_ref, options) ==
    IF IsSome(command.condition)
    THEN eval_condition(Unwrap(command.condition), EvaluateCtx(trait_ref, options))
    ELSE "true"

\* The loop of evaluate from the i-th candidate on: the templates left in
\* message and label when it ends, or a panic
\* Overwrite that keeps what an earlier command of the loop wrote
KeepEarlierWrite(slot, template) == IF IsSome(slot) THEN slot ELSE template

\* What an applicable command leaves in message (or label): its own
\* template when it carries one, what was there otherwise
Overwrite(slot, template) == IF IsSome(template) THEN template ELSE slot

RECURSIVE EvaluateLoop(_, _, _, _, _, _)
EvaluateLoop(commands, i, trait_ref, options, message, label) ==
    IF i > Len(commands) THEN Note("Ok", message, label)
    ELSE LET command == commands[i]
             applies == CommandApplies(command, trait_ref, options)
         IN  IF applies = "panic" THEN Note("Panic", None, None)
             ELSE IF applies = "false"
             THEN EvaluateLoop(commands, i + 1, trait_ref, options, message, label)
             ELSE EvaluateLoop(commands, i + 1, trait_ref, options,
                               Overwrite(message, command.message),
                               Overwrite(label, command.label))

\* Option::map(|t| t.format(tcx, trait_ref))
FormatOption(t, trait_ref) ==
    IF IsSome(t) THEN format(Unwrap(t), trait_ref) ELSE Rendered("")

evaluate(self, trait_ref, options) ==
    LET chosen == EvaluateLoop(Candidates(self), 1, trait_ref, options, None, None)
        l == FormatOption(chosen.label, trait_ref)
        m == FormatOption(chosen.message, trait_ref)
    IN  IF chosen.status = "Panic" THEN chosen
        ELSE IF l.bug \/ m.bug THEN Note("Bug", None, None)
        ELSE Note("Ok",
                  IF IsSome(chosen.message) THEN Some(m.s) ELSE None,
                  IF IsSome(chosen.label) THEN Some(l.s) ELSE None)

(***************************************************************************)
(* The inputs.  Bounds of the model.                                       *)
(***************************************************************************)
\* Fragments in one template string
MaxPieces == 2

\* Arguments in one matches(...) clause
MaxMatchArgs == 2

\* Nesting of all/any/not above a condition's atoms
MaxDepth == 1

\* on(...) subcommands in a well-formed attribute
MaxSubs == 2

\* Items in an attribute list that may hold rejected items
MaxItems == 3

\* The sequences over S of length lo..hi
SeqsUpTo(S, lo, hi) == UNION {[1..n -> S] : n \in lo..hi}

\* Template strings: runs of text and placeholders for Self, the parameter T,
\* the trait Foo, the undeclared X, and the positional {}
Fragments == {"m", "{Self}", "{T}", "{Foo}", "{X}", "{}"}

RECURSIVE Concat(_, _)
Concat(fs, i) == IF i > Len(fs) THEN "" ELSE fs[i] \o Concat(fs, i + 1)

Templates == {Concat(fs, 1) : fs \in SeqsUpTo(Fragments, 1, MaxPieces)}

\* The options a caller of evaluate may pass
OptionPairs == {<<"a", None>>, <<"a", Some("x")>>, <<"a", Some("y")>>}

OptionSets == SUBSET OptionPairs

\* Simple named leaves: `a` and `a = "x"`
Leaves == {Word("a"), NameValue("a", StrLit("x"))}

\* The arguments a matches clause is written with
MatchArgs ==
    {Literal(StrLit("Bar")), NameValue("Self", StrLit("T")), NameValue("Self", StrLit("MyType")),
     NameValue("bound", StrLit("Bar")), NameValue("selftype", StrLit("MyType"))}

MatchesClauses == {List("matches", as) : as \in SeqsUpTo(MatchArgs, 0, MaxMatchArgs)}

\* Conditions: a leaf or a matches clause under up to MaxDepth of not(c),
\* any(a, c), any(c, a), all(a, c), all(c, a)
RECURSIVE Conds(_)
Conds(d) ==
    IF d = 0 THEN {Word("a")} \cup MatchesClauses
    ELSE LET C == Conds(d - 1)
         IN  C \cup {List("not", <<c>>) : c \in C}
               \cup {List(n, <<Word("a"), c>>) : n \in {"any", "all"}, c \in C}
               \cup {List(n, <<c, Word("a")>>) : n \in {"any", "all"}, c \in C}

Message(t) == NameValue("message", StrLit(t))

Label(t) == NameValue("label", StrLit(t))

\* What a well-formed root ends with: an optional message, then an
\* optional label
Bodies ==
    {m \o l : m \in {<<>>, <<Message("m")>>, <<Message("{T}")>>},
              l \in {<<>>, <<Label("{Self}")>>}}

\* What follows the condition in a well-formed on(...): a message, a label
\* or both
SubBodies ==
    {<<Message("m")>>, <<Message("{T}")>>, <<Label("{Self}")>>, <<Label("m")>>,
     <<Message("m"), Label("{Self}")>>}

\* Well-formed attributes: up to MaxSubs on(leaf, body), then the root's body
OrderedLists ==
    {subs \o b : subs \in SeqsUpTo({List("on", <<c>> \o sb) : c \in Leaves, sb \in SubBodies},
                                   0, MaxSubs),
                 b \in Bodies}

\* One on(condition) or on(condition, message = "m"), then the root's
\* message or nothing
ConditionLists ==
    {<<List("on", <<c>> \o sb)>> \o b :
        c \in Conds(MaxDepth), sb \in {<<>>, <<Message("m")>>}, b \in {<<>>, <<Message("{T}")>>}}

\* Items a root list may hold, accepted or not
RootItems ==
    {Message("m"), Message("{X}"), Label("m"), Word("message"), Word("bogus"),
     List("on", <<Word("a"), Message("m")>>),
     List("on", <<Word("a"), List("on", <<Word("a"), Message("m")>>)>>),
     List("on", <<>>)}

ItemLists == SeqsUpTo(RootItems, 0, MaxItems)

AttrName == "rustc_on_unimplemented"

\* What the annotated item may carry: no such attribute, the bare word, a
\* value that is no string, a bare string, or a list
Attributes ==
    {None, Some(Word(AttrName)), Some(NameValue(AttrName, IntLit("1")))}
      \cup {Some(NameValue(AttrName, StrLit(t))) : t \in Templates}
      \cup {Some(List(AttrName, its)) : its \in OrderedLists \cup ConditionLists \cup ItemLists}

(***************************************************************************)
(* The state machine: of_item runs on the item's attribute, then one call  *)
(* of evaluate on the directive it gave.  The directive is immutable and   *)
(* evaluate reads nothing else, so a second call would only repeat states. *)
(***************************************************************************)
NoResult == OfItemResult("Init", None, <<>>, <<>>)

NoNote == Note("Init", None, None)

Init ==
    /\ attr = None
    /\ result = NoResult
    /\ diags = <<>>
    /\ call = None
    /\ note = NoNote

OfItem ==
    /\ result.status = "Init"
    /\ \E a \in Attributes :
          LET r == of_item(TraitDefId, a)
          IN  /\ attr' = a
              /\ result' = [r EXCEPT !.diags = <<>>]
              /\ diags' = r.diags
    /\ UNCHANGED <<call, note>>

Evaluate ==
    /\ result.status = "Ok"
    /\ IsSome(result.dir)
    /\ ~IsSome(call)
    /\ \E trait_ref \in TraitRefs, options \in OptionSets :
          /\ call' = Some([trait_ref |-> trait_ref, options |-> options])
          /\ note' = evaluate(Unwrap(result.dir), trait_ref, options)
    /\ UNCHANGED <<attr, result, diags>>

Next == OfItem \/ Evaluate

Spec == Init /\ [][Next]_vars

(***************************************************************************)
(* The claims.  What the last calls were given and gave back.              *)
(***************************************************************************)
Parsed == result.status # "Init"

Evaluated == IsSome(call)

TheDirective == Unwrap(result.dir)

TheTraitRef == Unwrap(call).trait_ref

TheOptions == Unwrap(call).options

\* The items of the attribute when it is a list
AttrItems == Unwrap(attr).items

AttrIsList == IsSome(attr) /\ IsSome(meta_item_list(Unwrap(attr)))

\* The subcommands in declaration order, then the root
DeclarationOrder(d) == Append(d.subcommands, d)

\* The condition of candidate c holds, or c has none
Holds(c) == CommandApplies(c, TheTraitRef, TheOptions) = "true"

\* The candidates, in declaration order, that hold and carry a message
MessageCarriers(d) ==
    {i \in 1..Len(DeclarationOrder(d)) :
        Holds(DeclarationOrder(d)[i]) /\ IsSome(DeclarationOrder(d)[i].message)}

Least(S) == CHOOSE i \in S : \A j \in S : i <= j

\* C1: when evaluate returns, its message is the rendered message of the
\* first candidate, subcommands in declaration order and then the root,
\* whose condition holds or is absent and that carries a message; there is
\* no message when there is no such candidate.
C1_FirstHoldingCandidateGivesMessage ==
    (Evaluated /\ note.status = "Ok") =>
        LET d == TheDirective
            S == MessageCarriers(d)
        IN  IF S = {} THEN note.message = None
            ELSE note.message =
                    Some(format(Unwrap(DeclarationOrder(d)[Least(S)].message), TheTraitRef).s)

\* C1 witness: on(a, message = "m"), on(a = "x", message = "{T}"), message = "m"
\* evaluated where both conditions hold: the first subcommand's message wins
C1_Witness ==
    /\ Evaluated
    /\ attr = Some(List(AttrName, <<List("on", <<Word("a"), Message("{T}")>>),
                                    List("on", <<NameValue("a", StrLit("x")), Message("m")>>),
                                    Message("m")>>))
    /\ TheOptions = {<<"a", None>>, <<"a", Some("x")>>}
    /\ TheTraitRef.substs = <<"B", "A">>
    /\ note = Note("Ok", Some("A"), None)

\* The attribute of the C2 scenario: on(matches("Bar", Self = "T"), message = "m")
\* with the root message "{T}"
C2_Attribute ==
    Some(List(AttrName,
              <<List("on", <<List("matches", <<Literal(StrLit("Bar")),
                                              NameValue("Self", StrLit("T"))>>),
                             Message("m")>>),
                Message("{T}")>>))

\* C2: with on(matches("Bar", Self = "T"), message = m1) and a root message,
\* evaluate returns m1 when the T argument of the trait reference implements
\* Bar and the root message when it does not.
C2_MatchesFollowsTraitRef ==
    (Evaluated /\ attr = C2_Attribute) =>
        note.message =
            IF evaluate_obligation(TheTraitRef.substs[2], "trait_Bar")
            THEN Some("m")
            ELSE Some(TheTraitRef.substs[2])

\* A matches clause of wrong shape somewhere in a condition tree
RECURSIVE HasMalformedMatches(_)
HasMalformedMatches(c) ==
    IF c.kind # "List" THEN FALSE
    ELSE IF c.name = "matches" THEN ~names_from_matches_clause(c.items).ok
    ELSE \E i \in 1..Len(c.items) : HasMalformedMatches(c.items[i])

\* C3: an on(...) whose condition tree holds, at any nesting of all/any/not,
\* a matches clause of wrong shape makes parsing fail, and evaluate never
\* fails in names_from_matches_clause.
C3_MalformedMatchesRejected ==
    /\ (Parsed /\ AttrIsList) =>
          \A i \in 1..Len(AttrItems) :
              (/\ check_name(AttrItems[i], "on")
               /\ Len(AttrItems[i].items) > 0
               /\ HasMalformedMatches(AttrItems[i].items[1]))
                  => result.status # "Ok"
    /\ note.status # "Panic"

\* C4: when the loop of parse reports an item as not accepted (E0232 at
\* the item), the call of of_item that ran it returns an error, not a
\* directive, and the items after it in the same list were still scanned.
C4_RejectedItemFailsParse ==
    (Parsed /\ AttrIsList) =>
        \A k \in 1..Len(diags) :
            (diags[k].code = "E0232" /\ Len(diags[k].span) = 1
                                      /\ InSeq(diags[k].span, result.scanned))
                => /\ result.status = "Err"
                   /\ \A i \in diags[k].span[1]..Len(AttrItems) : InSeq(<<i>>, result.scanned)

\* The attribute of the C5 scenario, as in the test on-unimplemented-matches.rs:
\* on(matches(bound = "Bar", selftype = "MyType")), message = "{T}"
C5_Attribute ==
    Some(List(AttrName,
              <<List("on", <<List("matches", <<NameValue("bound", StrLit("Bar")),
                                              NameValue("selftype", StrLit("MyType"))>>)>>),
                Message("{T}")>>))

\* C5: on(matches(bound = "Bar", selftype = "MyType")), message = m parses
\* into a directive, and, MyType implementing Bar, evaluate yields m.
C5_KeyValueMatchesParses ==
    (Parsed /\ attr = C5_Attribute) =>
        /\ evaluate_obligation("MyType", "trait_Bar")
        /\ result.status = "Ok"
        /\ Evaluated => note.message = Some(TheTraitRef.substs[2])

\* The templates a directive holds, the subcommands' included
TemplatesOf(d) ==
    LET all == DeclarationOrder(d)
    IN  {Unwrap(all[i].message) : i \in {j \in 1..Len(all) : IsSome(all[j].message)}}
          \cup {Unwrap(all[i].label) : i \in {j \in 1..Len(all) : IsSome(all[j].label)}}

\* C6: no template that of_item accepted reaches a bug! branch of format,
\* for any trait reference of the trait: evaluate never ends in one, and
\* every template of the directive renders.
C6_AcceptedTemplatesRender ==
    /\ note.status # "Bug"
    /\ (result.status = "Ok" /\ IsSome(result.dir)) =>
          \A t \in TemplatesOf(TheDirective) : \A tr \in TraitRefs : ~format(t, tr).bug

\* C6 witness: the bare string "{T}{Foo}" rendered for Foo<A> with Self = B
C6_Witness ==
    /\ Evaluated
    /\ attr = Some(NameValue(AttrName, StrLit("{T}{Foo}")))
    /\ TheTraitRef.substs = <<"B", "A">>
    /\ note = Note("Ok", None, Some("Akrate::Foo"))

\* The attribute on(leaf, message = "m") alone
LeafAttribute(leaf) == Some(List(AttrName, <<List("on", <<leaf, Message("m")>>)>>))

\* C7 as claimed: a leaf is true iff the options hold an entry of that name
\* and, only when the leaf carries a value, of that value; a leaf without a
\* value is matched by name alone.
C7_LeafMatchedByNameAlone ==
    \A leaf \in Leaves :
        (Evaluated /\ attr = LeafAttribute(leaf)) =>
            (IsSome(note.message) <=>
                \E o \in TheOptions :
                    /\ o[1] = leaf.name
                    /\ IsSome(value_str(leaf)) => o[2] = value_str(leaf))

\* C7 as amended: a leaf is true iff the options hold an entry of that name
\* whose value is the leaf's value when the leaf carries one, and is absent
\* when the leaf carries none.
C7_LeafMatchedByNameAndValue ==
    \A leaf \in Leaves :
        (Evaluated /\ attr = LeafAttribute(leaf)) =>
            (IsSome(note.message) <=>
                \E o \in TheOptions :
                    /\ o[1] = leaf.name
                    /\ IF IsSome(value_str(leaf)) THEN o[2] = value_str(leaf)
                       ELSE ~IsSome(o[2]))

\* C7 witness: on(a, message = "m") evaluated with only a = "x" among the
\* options does not apply
C7_Witness ==
    /\ Evaluated
    /\ attr = LeafAttribute(Word("a"))
    /\ TheOptions = {<<"a", Some("x")>>}
    /\ note = Note("Ok", None, None)

\* C8: a bare string attribute that passes validation gives the directive
\* with no condition, no subcommands, no message and the string as label,
\* and evaluate on it returns no message and the rendered string as label.
C8_BareStringIsLabel ==
    (Parsed /\ IsSome(attr) /\ IsSome(value_str(Unwrap(attr)))) =>
        LET t == Unwrap(value_str(Unwrap(attr)))
            valid == \A i \in 1..Len(Parser(t)) :
                        Parser(t)[i].kind = "NextArgument" =>
                            /\ Parser(t)[i].position = "ArgumentNamed"
                            /\ Parser(t)[i].s \in {"Self", "Foo", "T"}
        IN  valid =>
               /\ result.status = "Ok"
               /\ result.dir = Some(Directive(None, <<>>, None, Some(t)))
               /\ Evaluated =>
                     /\ note.status = "Ok"
                     /\ note.message = None
                     /\ note.label = Some(format(t, TheTraitRef).s)

\* C8 witness: the bare string "m{Self}" evaluated for Self = B
C8_Witness ==
    /\ Evaluated
    /\ attr = Some(NameValue(AttrName, StrLit("m{Self}")))
    /\ TheTraitRef.substs = <<"B", "A">>
    /\ TheOptions = {<<"a", None>>}
    /\ note = Note("Ok", None, Some("mB"))

\* C9: in every directive tree of_item returns, the root has no condition,
\* every subcommand has one, and no subcommand has subcommands.
C9_TreeShape ==
    (result.status = "Ok" /\ IsSome(result.dir)) =>
        /\ TheDirective.condition = None
        /\ \A i \in 1..Len(TheDirective.subcommands) :
              /\ IsSome(TheDirective.subcommands[i].condition)
              /\ TheDirective.subcommands[i].subcommands = <<>>

\* C9 witness: a list with an on(...) inside an on(...) parsed into a
\* directive with one subcommand
C9_Witness ==
    /\ attr = Some(List(AttrName,
                        <<List("on", <<Word("a"), List("on", <<Word("a"), Message("m")>>)>>)>>))
    /\ result.status = "Ok"
    /\ Len(TheDirective.subcommands) = 1

\* C10: a message or label of the list whose template fails validation
\* (E0230 or E0231 at the attribute) does not stop the scan: every item of
\* the list is still looked at.
C10_BadTemplateScanGoesOn ==
    (Parsed /\ AttrIsList) =>
        ((\E k \in 1..Len(diags) : diags[k].code \in {"E0230", "E0231"} /\ diags[k].span = <<>>)
            => \A i \in 1..Len(AttrItems) : InSeq(<<i>>, result.scanned))

\* The candidates, in declaration order, that hold and carry a label
LabelCarriers(d) ==
    {i \in 1..Len(DeclarationOrder(d)) :
        Holds(DeclarationOrder(d)[i]) /\ IsSome(DeclarationOrder(d)[i].label)}

\* C11: when evaluate returns, its label is the rendered label of the first
\* candidate, subcommands in declaration order and then the root, whose
\* condition holds or is absent and that carries a label, whichever
\* candidate gave the message; when every candidate that carries a message
\* (or label) has a false condition, there is no message (or label).
C11_LabelChosenIndependently ==
    (Evaluated /\ note.status = "Ok") =>
        LET d == TheDirective
            all == DeclarationOrder(d)
            S == LabelCarriers(d)
        IN  /\ IF S = {} THEN note.label = None
               ELSE note.label = Some(format(Unwrap(all[Least(S)].label), TheTraitRef).s)
            /\ (\A i \in 1..Len(all) : IsSome(all[i].message) => ~Holds(all[i]))
                  => note.message = None
            /\ (\A i \in 1..Len(all) : IsSome(all[i].label) => ~Holds(all[i]))
                  => note.label = None

\* C11 witness: on(a, label = "m"), on(a = "x", message = "{T}", ...) with the
\* root label "{Self}", evaluated where both conditions hold: the label is the
\* first subcommand's and the message the second's
C11_Witness ==
    /\ Evaluated
    /\ attr = Some(List(AttrName, <<List("on", <<Word("a"), Label("m")>>),
                                    List("on", <<NameValue("a", StrLit("x")), Message("{T}")>>),
                                    Label("{Self}")>>))
    /\ TheOptions = {<<"a", None>>, <<"a", Some("x")>>}
    /\ TheTraitRef.substs = <<"B", "A">>
    /\ note = Note("Ok", Some("A"), Some("m"))

\* The pairs i < j of subcommands whose conditions both hold
HoldingPairs(d) ==
    {p \in (1..Len(d.subcommands)) \X (1..Len(d.subcommands)) :
        p[1] < p[2] /\ Holds(d.subcommands[p[1]]) /\ Holds(d.subcommands[p[2]])}

\* C12 as claimed: when the conditions of two subcommands both hold and
\* both carry a message (or label), the returned message (or label) is the
\* later-declared subcommand's.
C12_LaterSubcommandOverrides ==
    (Evaluated /\ note.status = "Ok") =>
        \A p \in HoldingPairs(TheDirective) :
            LET later == TheDirective.subcommands[p[2]]
                earlier == TheDirective.subcommands[p[1]]
            IN  /\ (IsSome(earlier.message) /\ IsSome(later.message))
                      => note.message = Some(format(Unwrap(later.message), TheTraitRef).s)
                /\ (IsSome(earlier.label) /\ IsSome(later.label))
                      => note.label = Some(format(Unwrap(later.label), TheTraitRef).s)

\* The subcommands that hold and carry template f ("message" or "label")
HoldingWith(d, f) ==
    {i \in 1..Len(d.subcommands) :
        Holds(d.subcommands[i]) /\ IsSome(d.subcommands[i][f])}

\* C12 as amended: when the conditions of two subcommands both hold and
\* both carry a message (or label), the earlier-declared one overrides the
\* later-declared one: the returned message (or label) is that of the
\* earliest-declared subcommand that holds and carries one.
C12_EarlierSubcommandOverrides ==
    (Evaluated /\ note.status = "Ok") =>
        \A p \in HoldingPairs(TheDirective) :
            LET d == TheDirective
                later == d.subcommands[p[2]]
                earlier == d.subcommands[p[1]]
            IN  /\ (IsSome(earlier.message) /\ IsSome(later.message))
                      => note.message =
                            Some(format(Unwrap(d.subcommands[Least(HoldingWith(d, "message"))].message),
                                        TheTraitRef).s)
                /\ (IsSome(earlier.label) /\ IsSome(later.label))
                      => note.label =
                            Some(format(Unwrap(d.subcommands[Least(HoldingWith(d, "label"))].label),
                                        TheTraitRef).s)

\* C12 witness: on(a, message = "m"), on(a = "x", message = "{T}") evaluated
\* where both conditions hold: the message is the earlier subcommand's
C12_Witness ==
    /\ Evaluated
    /\ attr = Some(List(AttrName, <<List("on", <<Word("a"), Message("m")>>),
                                    List("on", <<NameValue("a", StrLit("x")), Message("{T}")>>)>>))
    /\ TheOptions = {<<"a", None>>, <<"a", Some("x")>>}
    /\ TheTraitRef.substs = <<"B", "A">>
    /\ note = Note("Ok", Some("m"), None)

====
